---- MODULE Spec2Model ----
(***************************************************************************)
(* xxhash-cli: the chunked reader (ChunkedReader::next) and the per-file   *)
(* hashing loop of main, as a state machine.                               *)
(*                                                                         *)
(* The four per-algorithm loops of main are textually the same except for  *)
(* how the hasher is built, which digest is taken, how the line is         *)
(* formatted and how the hasher is reset; the model has one loop and       *)
(* dispatches on args.kind at exactly those four places.                   *)
(*                                                                         *)
(* The hash functions live in an external crate.  A digest is modelled as  *)
(* the term [algo, bits, seed, input]: two digests are equal iff they were *)
(* taken by the same algorithm with the same seed over the same bytes.     *)
(*                                                                         *)
(* 64-bit quantities (the seed) are kept as four 16-bit limbs, least       *)
(* significant first, so that the u64 -> u32 conversion keeps its width.   *)
(***************************************************************************)
EXTENDS Integers, Sequences, FiniteSets, TLC

\* ------------------------------------------------------------------ bounds
\* Capacity of the reader's buffer (the const generic N of ChunkedReader;
\* open_file instantiates it with 4096).
N == 2
\* Longest list of file arguments.
MaxFiles == 2
\* Most transient Interrupted failures the environment injects in one run.
MaxInterrupts == 1
\* Most next() calls the reader harness makes on one source.
MaxCalls == 5

\* ------------------------------------------------------------- data types
Limb == 65535

\* u64 seeds as limbs: 0, 2^32 - 1, 2^32.
Seed0 == <<0, 0, 0, 0>>
SeedMax32 == <<Limb, Limb, 0, 0>>
SeedOver32 == <<0, 0, 1, 0>>
Seeds == {Seed0, SeedMax32, SeedOver32}

HashKind == {"Xxh3", "Xxh3_64", "Xxh64", "Xxh32"}

\* The file system the invocation runs against: path "m" does not exist,
\* "e" is empty, "s" is shorter than the buffer, "f" fills it exactly, "l"
\* spans two full chunks and a partial one.
Paths == {"e", "s", "l", "m"}
ReaderPaths == {"e", "s", "f", "l"}
\* "z" is a source whose reads report Interrupted for ever.
StormPath == "z"
AllPaths == Paths \cup ReaderPaths \cup {StormPath}
Exists(path) == path # "m"
Content(path) ==
    CASE path = "e" -> <<>>
      [] path = "s" -> <<201>>
      [] path = "f" -> [i \in 1..N |-> 100 + i]
      [] path = "l" -> [i \in 1..(2 * N + 1) |-> i]
      [] OTHER -> <<>>

RECURSIVE SeqsUpTo(_, _)
SeqsUpTo(S, n) ==
    IF n = 0 THEN {<<>>}
    ELSE LET shorter == SeqsUpTo(S, n - 1)
         IN  shorter \cup {Append(s, x) : s \in {t \in shorter : Len(t) = n - 1}, x \in S}

Min(a, b) == IF a < b THEN a ELSE b

\* Every file complete on disk before the invocation starts.
FullyWritten == [p \in AllPaths |-> Len(Content(p))]

\* ------------------------------------------------------------------ state
VARIABLES
    args,        \* Cli: seed, uuid, kind, file
    pc,          \* position of main / of the next() call in progress
    hasher,      \* the accumulator of the selected algorithm
    seed,        \* the u32 seed local of the Xxh32 arm
    it,          \* args.file.iter(): number of files already taken
    reader,      \* ChunkedReader of the current file: io position and buffer
    total_size,  \* next(): bytes accumulated in this call
    buf,         \* next(): the unfilled remainder of the buffer
    result,      \* what next() returned
    hash,        \* the digest taken for the current file
    stdout,
    stderr,
    exitCode,    \* process exit status, once main has returned
    interrupts,  \* Interrupted failures injected so far
    calls,       \* harness: next() calls made
    call,        \* the next() call in progress: source position at entry, read results
    fds,         \* sources (by position in args.file) whose File is open
    written,     \* file system: bytes of each file written so far
    trace        \* history of the operations performed

vars == <<args, pc, hasher, seed, it, reader, total_size, buf, result, hash,
          stdout, stderr, exitCode, interrupts, calls, call, fds, written, trace>>

NoHasher == [built |-> FALSE, algo |-> "", seed |-> <<>>, data |-> <<>>]
NoReader == [open |-> FALSE, path |-> "", pos |-> 0, buffer |-> <<>>]
NoResult == [tag |-> "Pending", chunk |-> <<>>, kind |-> ""]
NoHash == [algo |-> "", bits |-> 0, seed |-> <<>>, input |-> <<>>]
NoBuf == [start |-> 0, len |-> 0]
NoCall == [pos |-> 0, reads |-> <<>>]
Running == -1

\* What one io.read(buf) returned.
ReadResult(res, size) == [res |-> res, size |-> size]

Event(ev, src, data) == [ev |-> ev, src |-> src, data |-> data]

\* ------------------------------------------------- external collaborators
\* Mutant: the conversion written as a truncating cast (args.seed as u32).
TruncateU32(s) == [ok |-> TRUE, value |-> <<s[1], s[2]>>]

\* u64 -> u32 (TryFrom): succeeds iff the two high limbs are zero.
TryIntoU32(s) ==
    IF s[3] = 0 /\ s[4] = 0
    THEN [ok |-> TRUE, value |-> <<s[1], s[2]>>]
    ELSE [ok |-> FALSE, value |-> <<>>]

\* Xxh3::with_seed, Xxh64::new, Xxh32::new: a freshly seeded accumulator.
NewHasher(algo, s) == [built |-> TRUE, algo |-> algo, seed |-> s, data |-> <<>>]

\* hasher.update(chunk): pure append.
Update(h, chunk) == [h EXCEPT !.data = @ \o chunk]

\* hasher.digest128() of Xxh3; hasher.digest() of Xxh3 (64 bits), Xxh64, Xxh32.
Digest128(h) == [algo |-> h.algo, bits |-> 128, seed |-> h.seed, input |-> h.data]
Digest(h) ==
    [algo |-> h.algo, bits |-> IF h.algo = "xxh32" THEN 32 ELSE 64,
     seed |-> h.seed, input |-> h.data]

\* Mutant: a reset that leaves the accumulated input in place.
Xxh3ResetKeep(h) == h

\* Xxh3::reset() keeps the seed given at construction; Xxh64::reset(seed) and
\* Xxh32::reset(seed) take it as an argument.
Xxh3Reset(h) == [h EXCEPT !.data = <<>>]
ResetWith(h, s) == [h EXCEPT !.seed = s, !.data = <<>>]

\* Display of the numeric digest, and of the v4 UUID built from its
\* little-endian bytes.
FormatHash(h) == [fmt |-> "number", of |-> h]
FormatUuid(h) == [fmt |-> "uuid", of |-> h]

\* println!("{file}:{...}")
Line(file, repr) == <<file, ":", repr>>
NoFileNotice == <<"No file specified...">>
\* eprintln!("{}: cannot open: {}", file, error) and its siblings
CannotOpen(file, error) == [file |-> file, text |-> ": cannot open: ", error |-> error]
ErrorReading(file, error) == [file |-> file, text |-> ": error reading: ", error |-> error]
InvalidSeed(s) == [seed |-> s, text |-> " is not valid seed for 32bit hash"]

\* fn main() returns (): the runtime exits with the success status.
ExitSuccess == 0

\* ---------------------------------------------------------- ChunkedReader
ChunkedReaderNew(path) ==
    [open |-> TRUE, path |-> path, pos |-> 0, buffer |-> [i \in 1..N |-> 0]]

\* Bytes the source still has to deliver.
Remaining(r) == written[r.path] - r.pos

\* total_size.saturating_add(size); the sum never exceeds N.
SaturatingAdd(a, b) == a + b

\* Mutant: the read is issued over the whole buffer instead of its remainder.
ReadIntoHead(r, b, size) ==
    [r EXCEPT !.pos = @ + size,
              !.buffer = [i \in 1..N |->
                  IF i <= size THEN Content(r.path)[r.pos + i] ELSE @[i]]]

\* io.read(buf) returning Ok(size): size bytes of the source land at the
\* start of buf and the source advances by size.
ReadInto(r, b, size) ==
    [r EXCEPT !.pos = @ + size,
              !.buffer = [i \in 1..N |->
                  IF i > b.start /\ i <= b.start + size
                  THEN Content(r.path)[r.pos + (i - b.start)]
                  ELSE @[i]]]

\* Mutant: the slice is moved on without being shortened.
AdvanceKeepLen(b, size) == [start |-> b.start + size, len |-> b.len]

\* buf = &mut buf[size..]
Advance(b, size) == [start |-> b.start + size, len |-> b.len - size]

\* &mut self.buffer[..total_size]
ChunkOf(r, n) == SubSeq(r.buffer, 1, n)

\* Mutant: only a full buffer is handed out; a shorter tail is dropped.
NextResultFullOnly(r, n) ==
    IF n < N
    THEN [tag |-> "None", chunk |-> <<>>, kind |-> ""]
    ELSE [tag |-> "Some", chunk |-> ChunkOf(r, n), kind |-> ""]

\* Lines 41-45: what next() returns once the loop has ended.
NextResult(r, n) ==
    IF n = 0
    THEN [tag |-> "None", chunk |-> <<>>, kind |-> ""]
    ELSE [tag |-> "Some", chunk |-> ChunkOf(r, n), kind |-> ""]

\* Mutant: a reader that remembers having seen a read of zero (the last
\* chunk it returned was not full) and reports the end without reading.
NextEnterLatched ==
    /\ pc = "loop"
    /\ total_size' = 0
    /\ buf' = [start |-> 0, len |-> N]
    /\ call' = [pos |-> reader.pos, reads |-> <<>>]
    /\ IF result.tag = "Some" /\ Len(result.chunk) < N
       THEN /\ result' = NextResult(reader, 0)
            /\ pc' = "match"
       ELSE /\ result' = NoResult
            /\ pc' = "read"
    /\ UNCHANGED <<args, fds, written, hasher, seed, it, reader, hash, stdout,
                   stderr, exitCode, interrupts, calls, trace>>

\* reader.next() is entered: the cursor starts at the head of the buffer.
NextEnter ==
    /\ pc = "loop"
    /\ total_size' = 0
    /\ buf' = [start |-> 0, len |-> N]
    /\ result' = NoResult
    /\ pc' = "read"
    /\ call' = [pos |-> reader.pos, reads |-> <<>>]
    /\ UNCHANGED <<args, fds, written, hasher, seed, it, reader, hash, stdout, stderr,
                   exitCode, interrupts, calls, trace>>

\* Mutant: next() returns after its first successful read (no amortization).
ReadOkReturn ==
    /\ pc = "read"
    /\ \E size \in 1..Min(buf.len, Remaining(reader)) :
         /\ reader' = ReadInto(reader, buf, size)
         /\ total_size' = SaturatingAdd(total_size, size)
         /\ buf' = Advance(buf, size)
         /\ call' = [call EXCEPT !.reads = Append(@, ReadResult("Ok", size))]
         /\ result' = NextResult(reader', total_size')
    /\ pc' = "match"
    /\ UNCHANGED <<args, fds, written, hasher, seed, it, hash, stdout, stderr, exitCode,
                   interrupts, calls, trace>>

\* Mutant: the loop is left as soon as the buffer is full.
ReadOkExitFull ==
    /\ pc = "read"
    /\ \E size \in 1..Min(buf.len, Remaining(reader)) :
         /\ reader' = ReadInto(reader, buf, size)
         /\ total_size' = SaturatingAdd(total_size, size)
         /\ buf' = Advance(buf, size)
         /\ call' = [call EXCEPT !.reads = Append(@, ReadResult("Ok", size))]
         /\ IF buf'.len = 0
            THEN /\ result' = NextResult(reader', total_size')
                 /\ pc' = "match"
            ELSE UNCHANGED <<pc, result>>
    /\ UNCHANGED <<args, fds, written, hasher, seed, it, hash, stdout, stderr, exitCode,
                   interrupts, calls, trace>>

\* Ok(size), size > 0: a short read of any size the remainder allows.
ReadOk ==
    /\ pc = "read"
    /\ \E size \in 1..Min(buf.len, Remaining(reader)) :
         /\ reader' = ReadInto(reader, buf, size)
         /\ total_size' = SaturatingAdd(total_size, size)
         /\ buf' = Advance(buf, size)
         /\ call' = [call EXCEPT !.reads = Append(@, ReadResult("Ok", size))]
    /\ UNCHANGED <<args, fds, written, pc, hasher, seed, it, result, hash, stdout, stderr,
                   exitCode, interrupts, calls, trace>>

\* Ok(0) => break, then the return of lines 41-45.  A read reports zero
\* when the source is exhausted or when the destination is empty.
ReadZero ==
    /\ pc = "read"
    /\ Min(buf.len, Remaining(reader)) = 0
    /\ result' = NextResult(reader, total_size)
    /\ pc' = "match"
    /\ call' = [call EXCEPT !.reads = Append(@, ReadResult("Ok", 0))]
    /\ UNCHANGED <<args, fds, written, hasher, seed, it, reader, total_size, buf, hash,
                   stdout, stderr, exitCode, interrupts, calls, trace>>

\* Mutant: an interrupted read ends the loop like a read of zero.
ReadInterruptedBreak ==
    /\ pc = "read"
    /\ interrupts < MaxInterrupts
    /\ interrupts' = interrupts + 1
    /\ call' = [call EXCEPT !.reads = Append(@, ReadResult("Interrupted", 0))]
    /\ result' = NextResult(reader, total_size)
    /\ pc' = "match"
    /\ UNCHANGED <<args, fds, written, hasher, seed, it, reader, total_size, buf,
                   hash, stdout, stderr, exitCode, calls, trace>>

\* Err(Interrupted) => continue: nothing moves.
ReadInterrupted ==
    /\ pc = "read"
    /\ interrupts < MaxInterrupts
    /\ interrupts' = interrupts + 1
    /\ call' = [call EXCEPT !.reads = Append(@, ReadResult("Interrupted", 0))]
    /\ UNCHANGED <<args, fds, written, pc, hasher, seed, it, reader, total_size, buf, result,
                   hash, stdout, stderr, exitCode, calls, trace>>

\* Err(error) of any other kind => return Err(error).
ReadErr ==
    /\ pc = "read"
    /\ result' = [tag |-> "Err", chunk |-> <<>>, kind |-> "Other"]
    /\ pc' = "match"
    /\ call' = [call EXCEPT !.reads = Append(@, ReadResult("Err", 0))]
    /\ UNCHANGED <<args, fds, written, hasher, seed, it, reader, total_size, buf, hash,
                   stdout, stderr, exitCode, interrupts, calls, trace>>

\* ------------------------------------------------------------------- main
File == args.file[it]

AlgoOf(kind) ==
    CASE kind = "Xxh3" -> "xxh3"
      [] kind = "Xxh3_64" -> "xxh3"
      [] kind = "Xxh64" -> "xxh64"
      [] kind = "Xxh32" -> "xxh32"

\* args.file.is_empty(): the notice, and main returns.
MainNoFile ==
    /\ pc = "main"
    /\ args.file = <<>>
    /\ stdout' = Append(stdout, NoFileNotice)
    /\ pc' = "exit"
    /\ exitCode' = ExitSuccess
    /\ UNCHANGED <<args, fds, written, call, hasher, seed, it, reader, total_size, buf, result,
                   hash, stderr, interrupts, calls, trace>>

\* The Xxh3, Xxh3_64 and Xxh64 arms: the hasher is built from args.seed.
MainBuild ==
    /\ pc = "main"
    /\ args.file # <<>>
    /\ args.kind # "Xxh32"
    /\ hasher' = NewHasher(AlgoOf(args.kind), args.seed)
    /\ trace' = Append(trace, Event("build", 0, <<>>))
    /\ pc' = "for"
    /\ UNCHANGED <<args, fds, written, call, seed, it, reader, total_size, buf, result, hash,
                   stdout, stderr, exitCode, interrupts, calls>>

\* Mutant: the seed is validated before the file list is looked at.
MainXxh32Early ==
    /\ pc = "main"
    /\ args.kind = "Xxh32"
    /\ LET conv == TryIntoU32(args.seed) IN
       IF conv.ok
       THEN /\ args.file # <<>>
            /\ seed' = conv.value
            /\ hasher' = NewHasher("xxh32", conv.value)
            /\ trace' = Append(trace, Event("build", 0, <<>>))
            /\ pc' = "for"
            /\ UNCHANGED <<stderr, exitCode>>
       ELSE /\ stderr' = Append(stderr, InvalidSeed(args.seed))
            /\ pc' = "exit"
            /\ exitCode' = ExitSuccess
            /\ UNCHANGED <<seed, hasher, trace>>
    /\ UNCHANGED <<args, fds, written, call, it, reader, total_size, buf, result, hash, stdout,
                   interrupts, calls>>

\* The Xxh32 arm: the seed must convert to u32 first.
MainXxh32 ==
    /\ pc = "main"
    /\ args.file # <<>>
    /\ args.kind = "Xxh32"
    /\ LET conv == TryIntoU32(args.seed) IN
       IF conv.ok
       THEN /\ seed' = conv.value
            /\ hasher' = NewHasher("xxh32", conv.value)
            /\ trace' = Append(trace, Event("build", 0, <<>>))
            /\ pc' = "for"
            /\ UNCHANGED <<stderr, exitCode>>
       ELSE /\ stderr' = Append(stderr, InvalidSeed(args.seed))
            /\ pc' = "exit"
            /\ exitCode' = ExitSuccess
            /\ UNCHANGED <<seed, hasher, trace>>
    /\ UNCHANGED <<args, fds, written, call, it, reader, total_size, buf, result, hash, stdout,
                   interrupts, calls>>

\* for file in args.file.iter(): open_file(file) succeeds.
ForOpenOk ==
    /\ pc = "for"
    /\ it < Len(args.file)
    /\ Exists(args.file[it + 1])
    /\ it' = it + 1
    /\ reader' = ChunkedReaderNew(args.file[it + 1])
    /\ trace' = Append(trace, Event("open", it + 1, <<>>))
    /\ pc' = "loop"
    /\ fds' = fds \cup {it + 1}
    /\ UNCHANGED <<args, written, call, hasher, seed, total_size, buf, result, hash, stdout,
                   stderr, exitCode, interrupts, calls>>

\* Mutant: an unopenable file is reported and skipped (continue).
ForOpenErrSkip ==
    /\ pc = "for"
    /\ it < Len(args.file)
    /\ ~Exists(args.file[it + 1])
    /\ it' = it + 1
    /\ stderr' = Append(stderr, CannotOpen(args.file[it + 1], "NotFound"))
    /\ trace' = Append(trace, Event("open_err", it + 1, <<>>))
    /\ UNCHANGED <<args, fds, written, call, pc, hasher, seed, reader, total_size, buf, result,
                   hash, stdout, exitCode, interrupts, calls>>

\* open_file(file) fails: the message, and main returns.
ForOpenErr ==
    /\ pc = "for"
    /\ it < Len(args.file)
    /\ ~Exists(args.file[it + 1])
    /\ it' = it + 1
    /\ stderr' = Append(stderr, CannotOpen(args.file[it + 1], "NotFound"))
    /\ trace' = Append(trace, Event("open_err", it + 1, <<>>))
    /\ pc' = "exit"
    /\ exitCode' = ExitSuccess
    /\ UNCHANGED <<args, fds, written, call, hasher, seed, reader, total_size, buf, result, hash,
                   stdout, interrupts, calls>>

\* The iterator is exhausted: main falls off its end.
ForDone ==
    /\ pc = "for"
    /\ it = Len(args.file)
    /\ pc' = "exit"
    /\ exitCode' = ExitSuccess
    /\ UNCHANGED <<args, fds, written, call, hasher, seed, it, reader, total_size, buf, result,
                   hash, stdout, stderr, interrupts, calls, trace>>

\* Ok(None) => break
MatchNone ==
    /\ pc = "match"
    /\ result.tag = "None"
    /\ pc' = "digest"
    /\ UNCHANGED <<args, fds, written, call, hasher, seed, it, reader, total_size, buf, result,
                   hash, stdout, stderr, exitCode, interrupts, calls, trace>>

\* Mutant: the reading loop is left after the first chunk.
MatchSomeFinish ==
    /\ pc = "match"
    /\ result.tag = "Some"
    /\ hasher' = Update(hasher, result.chunk)
    /\ trace' = Append(trace, Event("update", it, result.chunk))
    /\ pc' = "digest"
    /\ UNCHANGED <<args, fds, written, call, seed, it, reader, total_size, buf,
                   result, hash, stdout, stderr, exitCode, interrupts, calls>>

\* Ok(Some(chunk)) => hasher.update(chunk)
MatchSome ==
    /\ pc = "match"
    /\ result.tag = "Some"
    /\ hasher' = Update(hasher, result.chunk)
    /\ trace' = Append(trace, Event("update", it, result.chunk))
    /\ pc' = "loop"
    /\ UNCHANGED <<args, fds, written, call, seed, it, reader, total_size, buf, result, hash,
                   stdout, stderr, exitCode, interrupts, calls>>

\* Mutant: a read error is reported but taken as the end of the file.
MatchErrAsEnd ==
    /\ pc = "match"
    /\ result.tag = "Err"
    /\ stderr' = Append(stderr, ErrorReading(File, result.kind))
    /\ trace' = Append(trace, Event("read_err", it, <<>>))
    /\ pc' = "digest"
    /\ UNCHANGED <<args, fds, written, call, hasher, seed, it, reader, total_size, buf, result,
                   hash, stdout, exitCode, interrupts, calls>>

\* Err(error) => the message, and main returns (the reader is dropped).
MatchErr ==
    /\ pc = "match"
    /\ result.tag = "Err"
    /\ stderr' = Append(stderr, ErrorReading(File, result.kind))
    /\ trace' = Append(trace, Event("read_err", it, <<>>))
    /\ reader' = NoReader
    /\ pc' = "exit"
    /\ exitCode' = ExitSuccess
    /\ fds' = fds \ {it}
    /\ UNCHANGED <<args, written, call, hasher, seed, it, total_size, buf, result, hash,
                   stdout, interrupts, calls>>

\* let hash = hasher.digest128() / hasher.digest()
TakeDigest ==
    /\ pc = "digest"
    /\ hash' = IF args.kind = "Xxh3" THEN Digest128(hasher) ELSE Digest(hasher)
    /\ trace' = Append(trace, Event("digest", it, hasher.data))
    /\ pc' = "emit"
    /\ UNCHANGED <<args, fds, written, call, hasher, seed, it, reader, total_size, buf, result,
                   stdout, stderr, exitCode, interrupts, calls>>

\* Mutant: the line is put in front of the lines already printed.
EmitPrepend ==
    /\ pc = "emit"
    /\ stdout' = <<Line(File, IF args.kind = "Xxh3" /\ args.uuid
                              THEN FormatUuid(hash) ELSE FormatHash(hash))>> \o stdout
    /\ trace' = Append(trace, Event("emit", it, <<>>))
    /\ pc' = "reset"
    /\ UNCHANGED <<args, fds, written, call, hasher, seed, it, reader, total_size, buf, result,
                   hash, stderr, exitCode, interrupts, calls>>

\* Mutant: --uuid is honoured in every arm.
EmitUuidAnyKind ==
    /\ pc = "emit"
    /\ stdout' = Append(stdout,
           Line(File, IF args.uuid THEN FormatUuid(hash) ELSE FormatHash(hash)))
    /\ trace' = Append(trace, Event("emit", it, <<>>))
    /\ pc' = "reset"
    /\ UNCHANGED <<args, fds, written, call, hasher, seed, it, reader, total_size,
                   buf, result, hash, stderr, exitCode, interrupts, calls>>

\* println!: the UUID rendering only in the Xxh3 arm with --uuid.
Emit ==
    /\ pc = "emit"
    /\ stdout' = Append(stdout,
           Line(File, IF args.kind = "Xxh3" /\ args.uuid
                      THEN FormatUuid(hash) ELSE FormatHash(hash)))
    /\ trace' = Append(trace, Event("emit", it, <<>>))
    /\ pc' = "reset"
    /\ UNCHANGED <<args, fds, written, call, hasher, seed, it, reader, total_size, buf, result,
                   hash, stderr, exitCode, interrupts, calls>>

\* Mutant: the reader outlives the loop body (its File stays open).
ResetKeepOpen ==
    /\ pc = "reset"
    /\ hasher' = CASE args.kind \in {"Xxh3", "Xxh3_64"} -> Xxh3Reset(hasher)
                   [] args.kind = "Xxh64" -> ResetWith(hasher, args.seed)
                   [] args.kind = "Xxh32" -> ResetWith(hasher, seed)
    /\ trace' = Append(trace, Event("reset", it, <<>>))
    /\ pc' = "for"
    /\ UNCHANGED <<args, fds, written, call, seed, it, reader, total_size, buf,
                   result, hash, stdout, stderr, exitCode, interrupts, calls>>

\* hasher.reset() / hasher.reset(args.seed) / hasher.reset(seed); the loop
\* body ends and the reader is dropped.
Reset ==
    /\ pc = "reset"
    /\ hasher' = CASE args.kind \in {"Xxh3", "Xxh3_64"} -> Xxh3Reset(hasher)
                   [] args.kind = "Xxh64" -> ResetWith(hasher, args.seed)
                   [] args.kind = "Xxh32" -> ResetWith(hasher, seed)
    /\ trace' = Append(trace, Event("reset", it, <<>>))
    /\ reader' = NoReader
    /\ pc' = "for"
    /\ fds' = fds \ {it}
    /\ UNCHANGED <<args, written, call, seed, it, total_size, buf, result, hash, stdout,
                   stderr, exitCode, interrupts, calls>>

\* ---------------------------------------------------------- specification
Cli == [seed : Seeds, uuid : BOOLEAN, kind : HashKind,
        file : SeqsUpTo(Paths, MaxFiles)]

Init ==
    /\ args \in Cli
    /\ pc = "main"
    /\ hasher = NoHasher
    /\ seed = <<>>
    /\ it = 0
    /\ reader = NoReader
    /\ total_size = 0
    /\ buf = NoBuf
    /\ result = NoResult
    /\ hash = NoHash
    /\ stdout = <<>>
    /\ stderr = <<>>
    /\ exitCode = Running
    /\ interrupts = 0
    /\ calls = 0
    /\ call = NoCall
    /\ fds = {}
    /\ written = FullyWritten
    /\ trace = <<>>

Next ==
    \/ MainNoFile
    \/ MainBuild
    \/ MainXxh32
    \/ ForOpenOk
    \/ ForOpenErr
    \/ ForDone
    \/ NextEnter
    \/ ReadOk
    \/ ReadZero
    \/ ReadInterrupted
    \/ ReadErr
    \/ MatchNone
    \/ MatchSome
    \/ MatchErr
    \/ TakeDigest
    \/ Emit
    \/ Reset

Spec == Init /\ [][Next]_vars

\* ------------------------------------- a source that interrupts for ever
Stormy(r) == r.path = StormPath
InStorm == pc = "read" /\ Stormy(reader)

\* Mutant: after MaxInterrupts retries the interruption is returned as an error.
ReadStormGiveUp ==
    /\ InStorm
    /\ IF interrupts < MaxInterrupts
       THEN /\ interrupts' = interrupts + 1
            /\ call' = [call EXCEPT !.reads = Append(@, ReadResult("Interrupted", 0))]
            /\ UNCHANGED <<pc, result>>
       ELSE /\ result' = [tag |-> "Err", chunk |-> <<>>, kind |-> "Interrupted"]
            /\ call' = [call EXCEPT !.reads = Append(@, ReadResult("Err", 0))]
            /\ pc' = "match"
            /\ UNCHANGED interrupts
    /\ UNCHANGED <<args, fds, written, hasher, seed, it, reader, total_size, buf,
                   hash, stdout, stderr, exitCode, calls, trace>>

\* Err(Interrupted) => continue, on a source that reports nothing else: the
\* loop goes round again in the same state.  The retries are counted up to
\* MaxInterrupts and go on uncounted after that.
ReadStorm ==
    /\ InStorm
    /\ interrupts' = Min(interrupts + 1, MaxInterrupts)
    /\ call' = IF interrupts < MaxInterrupts
               THEN [call EXCEPT !.reads = Append(@, ReadResult("Interrupted", 0))]
               ELSE call
    /\ UNCHANGED <<args, fds, written, pc, hasher, seed, it, reader, total_size,
                   buf, result, hash, stdout, stderr, exitCode, calls, trace>>

LivePaths == {"l", "m", StormPath}

LiveInit ==
    /\ args \in [seed : {Seed0}, uuid : {FALSE}, kind : {"Xxh64", "Xxh32"},
                 file : SeqsUpTo(LivePaths, MaxFiles)]
    /\ pc = "main"
    /\ hasher = NoHasher
    /\ seed = <<>>
    /\ it = 0
    /\ reader = NoReader
    /\ total_size = 0
    /\ buf = NoBuf
    /\ result = NoResult
    /\ hash = NoHash
    /\ stdout = <<>>
    /\ stderr = <<>>
    /\ exitCode = Running
    /\ interrupts = 0
    /\ calls = 0
    /\ call = NoCall
    /\ fds = {}
    /\ written = FullyWritten
    /\ trace = <<>>

LiveNext ==
    \/ ~InStorm /\ Next
    \/ ReadStorm

\* The program is one thread that always takes its next step, and every
\* read it issues returns.
LiveSpec == LiveInit /\ [][LiveNext]_vars /\ WF_vars(LiveNext)

\* ------------------------------------------- a file that is still growing
\* Another process appends the next byte to a file.
Grow ==
    /\ \E p \in {"s", "l"} :
         /\ written[p] < Len(Content(p))
         /\ written' = [written EXCEPT ![p] = @ + 1]
    /\ UNCHANGED <<args, fds, pc, hasher, seed, it, reader, total_size, buf,
                   result, hash, stdout, stderr, exitCode, interrupts, calls,
                   call, trace>>

\* One file, of which any prefix is on disk when the invocation starts.
GrowInit ==
    /\ args \in [seed : {Seed0}, uuid : {FALSE}, kind : {"Xxh64"},
                 file : {<<"s">>, <<"l">>}]
    /\ \E k \in 0..Len(Content(args.file[1])) :
         written = [FullyWritten EXCEPT ![args.file[1]] = k]
    /\ pc = "main"
    /\ hasher = NoHasher
    /\ seed = <<>>
    /\ it = 0
    /\ reader = NoReader
    /\ total_size = 0
    /\ buf = NoBuf
    /\ result = NoResult
    /\ hash = NoHash
    /\ stdout = <<>>
    /\ stderr = <<>>
    /\ exitCode = Running
    /\ interrupts = 0
    /\ calls = 0
    /\ call = NoCall
    /\ fds = {}
    /\ trace = <<>>

GrowNext ==
    \/ Grow
    \/ MainBuild
    \/ ForOpenOk
    \/ ForDone
    \/ NextEnter
    \/ ReadOk
    \/ ReadZero
    \/ ReadInterrupted
    \/ ReadErr
    \/ MatchNone
    \/ MatchSome
    \/ MatchErr
    \/ TakeDigest
    \/ Emit
    \/ Reset

GrowSpec == GrowInit /\ [][GrowNext]_vars

\* ------------------------------------------- the line of a 128-bit digest
\* Here the digest is a number: a u128 written as its 16 bytes, most
\* significant first.  Strings are sequences of one-character strings.
U128Bytes == 16

\* Mutant: the bytes taken most significant first (to_be_bytes).
ToBeBytes(v) == v

\* hash.to_le_bytes(): least significant byte first.
ToLeBytes(v) == [i \in 1..U128Bytes |-> v[U128Bytes + 1 - i]]

\* lolid::Uuid::from_bytes
FromBytes(bytes) == bytes

\* Uuid::set_variant(): data[8] = (data[8] & 0x3f) | 0x80
SetVariant(u) == [u EXCEPT ![9] = (@ % 64) + 128]

\* Uuid::set_version(version): data[6] = (data[6] & 0x0f) | (version << 4)
VersionRandom == 4
SetVersion(u, version) == [u EXCEPT ![7] = (@ % 16) + version * 16]

HexDigits == <<"0", "1", "2", "3", "4", "5", "6", "7", "8", "9",
               "a", "b", "c", "d", "e", "f">>
HexByte(b) == <<HexDigits[(b \div 16) + 1], HexDigits[(b % 16) + 1]>>
RECURSIVE HexRun(_, _, _)
HexRun(u, from, to) ==
    IF from > to THEN <<>> ELSE HexByte(u[from]) \o HexRun(u, from + 1, to)

\* Display of Uuid: 8-4-4-4-12 lower-case hex digits.
UuidDisplay(u) ==
    HexRun(u, 1, 4) \o <<"-">> \o HexRun(u, 5, 6) \o <<"-">> \o HexRun(u, 7, 8)
        \o <<"-">> \o HexRun(u, 9, 10) \o <<"-">> \o HexRun(u, 11, 16)

\* Display of u128: decimal, no leading zero, by repeated division by ten.
RECURSIVE Carry10(_, _)
Carry10(v, i) == IF i = 0 THEN 0 ELSE (Carry10(v, i - 1) * 256 + v[i]) % 10
Quot10(v) == [i \in 1..Len(v) |-> (Carry10(v, i - 1) * 256 + v[i]) \div 10]
IsZero(v) == \A i \in 1..Len(v) : v[i] = 0
RECURSIVE Decimal(_)
Decimal(v) ==
    IF IsZero(v) THEN <<>>
    ELSE Decimal(Quot10(v)) \o <<HexDigits[Carry10(v, Len(v)) + 1]>>
DisplayU128(v) == IF IsZero(v) THEN <<"0">> ELSE Decimal(v)

\* Lines 129-134 on the bytes of the digest.
EmitBytes ==
    /\ pc = "emit"
    /\ stdout' = Append(stdout,
           Line(File, IF args.uuid
                      THEN UuidDisplay(SetVersion(SetVariant(FromBytes(ToLeBytes(hash))),
                                                  VersionRandom))
                      ELSE DisplayU128(hash)))
    /\ trace' = Append(trace, Event("emit", it, <<>>))
    /\ pc' = "reset"
    /\ UNCHANGED <<args, fds, written, call, hasher, seed, it, reader, total_size,
                   buf, result, hash, stderr, exitCode, interrupts, calls>>

\* Digest values tried: every version nibble and every variant pair, over
\* an all-zero, an all-ones and a mixed number.
U128Samples ==
    {[i \in 1..U128Bytes |->
         IF i = U128Bytes + 1 - 7 THEN b6
         ELSE IF i = U128Bytes + 1 - 9 THEN b8
         ELSE base[i]] :
       b6 \in {16 * h + l : h \in 0..15, l \in {0, 15}},
       b8 \in {64 * v + l : v \in 0..3, l \in {0, 63}},
       base \in {[i \in 1..U128Bytes |-> 0], [i \in 1..U128Bytes |-> 255],
                 [i \in 1..U128Bytes |-> (i * 37) % 256]}}

\* One existing file has been read to its end by the Xxh3 arm and
\* digest128() has returned some number.
UuidInit ==
    /\ args \in [seed : {Seed0}, uuid : BOOLEAN, kind : {"Xxh3"}, file : {<<"s">>}]
    /\ hash \in U128Samples
    /\ pc = "emit"
    /\ hasher = Update(NewHasher("xxh3", Seed0), Content("s"))
    /\ seed = <<>>
    /\ it = 1
    /\ reader = [ChunkedReaderNew("s") EXCEPT !.pos = Len(Content("s"))]
    /\ total_size = 0
    /\ buf = [start |-> 0, len |-> N]
    /\ result = NextResult(reader, 0)
    /\ stdout = <<>>
    /\ stderr = <<>>
    /\ exitCode = Running
    /\ interrupts = 0
    /\ calls = 0
    /\ call = [pos |-> Len(Content("s")), reads |-> <<ReadResult("Ok", 0)>>]
    /\ fds = {1}
    /\ written = FullyWritten
    /\ trace = <<Event("build", 0, <<>>), Event("open", 1, <<>>),
                 Event("update", 1, Content("s")), Event("digest", 1, Content("s"))>>

UuidNext ==
    \/ EmitBytes
    \/ Reset
    \/ ForDone

UuidSpec == UuidInit /\ [][UuidNext]_vars

\* ------------------------------------------------- the reader on its own
\* A caller that keeps calling next() on one source, whatever it returned.
HarnessCall ==
    /\ pc = "harness"
    /\ calls < MaxCalls
    /\ calls' = calls + 1
    /\ pc' = "loop"
    /\ UNCHANGED <<args, fds, written, call, hasher, seed, it, reader, total_size, buf,
                   result, hash, stdout, stderr, exitCode, interrupts, trace>>

HarnessTake ==
    /\ pc = "match"
    /\ trace' = Append(trace, Event(result.tag, calls, result.chunk))
    /\ pc' = "harness"
    /\ UNCHANGED <<args, fds, written, call, hasher, seed, it, reader, total_size, buf,
                   result, hash, stdout, stderr, exitCode, interrupts, calls>>

ReaderInit ==
    /\ \E path \in ReaderPaths :
         /\ args = [seed |-> Seed0, uuid |-> FALSE, kind |-> "Xxh3",
                    file |-> <<path>>]
         /\ reader = ChunkedReaderNew(path)
    /\ pc = "harness"
    /\ hasher = NoHasher
    /\ seed = <<>>
    /\ it = 1
    /\ total_size = 0
    /\ buf = NoBuf
    /\ result = NoResult
    /\ hash = NoHash
    /\ stdout = <<>>
    /\ stderr = <<>>
    /\ exitCode = Running
    /\ interrupts = 0
    /\ calls = 0
    /\ call = NoCall
    /\ fds = {1}
    /\ written = FullyWritten
    /\ trace = <<>>

ReaderNext ==
    \/ HarnessCall
    \/ NextEnter
    \/ ReadOk
    \/ ReadZero
    \/ ReadInterrupted
    \/ ReadErr
    \/ HarnessTake

ReaderSpec == ReaderInit /\ [][ReaderNext]_vars

TypeOK ==
    /\ pc \in {"main", "for", "loop", "read", "match", "digest", "emit",
               "reset", "exit", "harness"}
    /\ it \in 0..Len(args.file)
    /\ total_size \in 0..N
    /\ exitCode \in {Running, ExitSuccess}

\* ================================================================= claims
\* ---- reference definitions the claims are stated with
\* xxh(seed, bytes) computed in one shot by a freshly constructed accumulator.
BitsOf(kind) ==
    CASE kind = "Xxh3" -> 128
      [] kind = "Xxh3_64" -> 64
      [] kind = "Xxh64" -> 64
      [] kind = "Xxh32" -> 32
AboveU32Max(s) == s[3] > 0 \/ s[4] > 0
SeedUsed == IF args.kind = "Xxh32" THEN <<args.seed[1], args.seed[2]>> ELSE args.seed
OneShot(bytes) ==
    [algo |-> AlgoOf(args.kind), bits |-> BitsOf(args.kind), seed |-> SeedUsed,
     input |-> bytes]
ExpectedLine(i) ==
    <<args.file[i], ":",
      [fmt |-> IF args.kind = "Xxh3" /\ args.uuid THEN "uuid" ELSE "number",
       of |-> OneShot(Content(args.file[i]))]>>
ExpectedOut(n) == [i \in 1..n |-> ExpectedLine(i)]
AllExist == \A i \in 1..Len(args.file) : Exists(args.file[i])
\* A non-interrupted read failure was injected (it is the last read made).
ReadFault ==
    /\ call.reads # <<>>
    /\ call.reads[Len(call.reads)].res = "Err"
SeedFits == args.kind = "Xxh32" => ~AboveU32Max(args.seed)
Exited == pc = "exit"

RECURSIVE Fed(_, _)
\* The bytes given to update for source src, in order.
Fed(tr, src) ==
    IF tr = <<>> THEN <<>>
    ELSE (IF Head(tr).ev = "update" /\ Head(tr).src = src THEN Head(tr).data ELSE <<>>)
         \o Fed(Tail(tr), src)
EventsOf(ev, src) == {k \in 1..Len(trace) : trace[k].ev = ev /\ trace[k].src = src}

\* C1 (as stated): for every non-empty list of sources that all open and
\* read without a non-interrupted failure, and each of the four algorithms,
\* the invocation ends with exactly one line "<source>:<digest>" per source
\* on stdout, in list order, and nothing on stderr.
C1_OneLinePerSource_Original ==
    (Exited /\ args.file # <<>> /\ AllExist /\ ~ReadFault)
        => (stdout = ExpectedOut(Len(args.file)) /\ stderr = <<>>)

\* C1 (amended): the same, provided the seed fits in 32 bits when the 32-bit
\* algorithm is selected; and at every moment of any run with a usable seed
\* the lines printed so far are the lines of the first sources, in order.
C1_OneLinePerSource ==
    (args.file # <<>> /\ SeedFits) =>
        /\ Len(stdout) <= Len(args.file)
        /\ stdout = ExpectedOut(Len(stdout))
        /\ (Exited /\ AllExist /\ ~ReadFault)
              => (stdout = ExpectedOut(Len(args.file)) /\ stderr = <<>>)

C1_Witness ==
    /\ Exited
    /\ args.file = <<"l", "s">>
    /\ args.kind = "Xxh32"
    /\ args.seed = SeedMax32
    /\ Len(stdout) = 2
    /\ stderr = <<>>

\* C2: whenever digest is called for a source, the bytes fed to update since
\* the accumulator was last seeded are exactly the source's bytes, in order,
\* however the reads were fragmented; an empty source gets no update at all
\* and its digest is that of zero-length input.
C2_FedBytesAreSource ==
    /\ pc = "digest" =>
          /\ hasher.data = Content(File)
          /\ Fed(trace, it) = Content(File)
          /\ Content(File) = <<>> => EventsOf("update", it) = {}
    /\ pc = "emit" =>
          /\ hash.input = Content(File)
          /\ Content(File) = <<>> => hash = OneShot(<<>>)
    /\ \A k \in 1..Len(trace) :
          trace[k].ev = "digest" => trace[k].data = Content(args.file[trace[k].src])

C2_Witness ==
    /\ pc = "emit"
    /\ it = 2
    /\ File = "l"
    /\ interrupts > 0
    /\ Cardinality(EventsOf("update", 2)) = 3
    /\ hash.input = Content("l")

\* C3: after the reset that follows each source the accumulator equals a
\* freshly constructed one with the seed originally supplied, so the digest
\* taken for any later source equals the digest of that source hashed alone.
C3_ResetEquivalence ==
    /\ (pc = "for" /\ hasher.built) =>
          hasher = NewHasher(AlgoOf(args.kind), SeedUsed)
    /\ pc = "emit" => hash = OneShot(Content(File))

C3_Witness ==
    /\ pc = "emit"
    /\ it = 2
    /\ args.file = <<"l", "s">>
    /\ args.seed = SeedMax32
    /\ hash = OneShot(Content("s"))

\* C4: when opening the i-th source fails the invocation has terminated with
\* exactly "<source>: cannot open: <reason>" on stderr, the lines of sources
\* 1..i-1 on stdout and nothing else, and no source after the i-th was opened.
C4_OpenFailureAborts ==
    \A k \in 1..Len(trace) :
        trace[k].ev = "open_err" =>
            LET i == trace[k].src IN
            /\ Exited
            /\ k = Len(trace)
            /\ it = i
            /\ ~reader.open
            /\ stderr = <<CannotOpen(args.file[i], "NotFound")>>
            /\ stdout = ExpectedOut(i - 1)
            /\ \A j \in i..Len(args.file) : EventsOf("open", j) = {}

C4_Witness ==
    /\ Exited
    /\ args.file = <<"s", "m">>
    /\ Len(stdout) = 1
    /\ stderr = <<CannotOpen("m", "NotFound")>>

\* C5: a non-interrupted read failure makes next() return the error at once
\* with no chunk, the bytes accumulated in that call never reach update, and
\* the invocation ends with "<source>: error reading: <reason>" on stderr, no
\* digest and no line for that source, and no later source opened.
C5_ReadFailureAborts ==
    /\ (pc = "match" /\ ReadFault) =>
          /\ result.tag = "Err"
          /\ result.chunk = <<>>
    /\ ReadFault =>
          /\ pc \in {"match", "exit"}
          /\ hasher.data = SubSeq(Content(File), 1, call.pos)
          /\ EventsOf("digest", it) = {}
          /\ stdout = ExpectedOut(it - 1)
    /\ (Exited /\ ReadFault) =>
          /\ stderr = <<ErrorReading(File, "Other")>>
          /\ ~reader.open
          /\ trace[Len(trace)] = Event("read_err", it, <<>>)
          /\ \A j \in (it + 1)..Len(args.file) : EventsOf("open", j) = {}
    /\ args.file # <<>> =>
          Len(stdout) = Cardinality({k \in 1..Len(trace) :
                            trace[k].ev = "digest" /\ (k < Len(trace) \/ pc # "emit")})

C5_Witness ==
    /\ Exited
    /\ ReadFault
    /\ args.file = <<"s", "l">>
    /\ total_size > 0
    /\ hasher.data # <<>>
    /\ Len(stdout) = 1

\* C6 (as stated): once a configuration, open or read error has been
\* reported, the process ends with a status other than the success status.
C6_FailureStatus ==
    (Exited /\ stderr # <<>>) => exitCode # ExitSuccess

\* C7: with the 32-bit algorithm, at least one file and a seed above
\* 2^32 - 1, the only thing the invocation does is report the configuration
\* error: nothing is opened, no accumulator is built, stdout stays empty;
\* with a seed of at most 2^32 - 1 that error is never reported.
C7_SeedOutOfRange ==
    (args.kind = "Xxh32" /\ args.file # <<>>) =>
        IF AboveU32Max(args.seed)
        THEN /\ trace = <<>>
             /\ hasher = NoHasher
             /\ ~reader.open
             /\ it = 0
             /\ stdout = <<>>
             /\ pc \in {"main", "exit"}
             /\ Exited => stderr = <<InvalidSeed(args.seed)>>
        ELSE /\ \A k \in 1..Len(stderr) : stderr[k] # InvalidSeed(args.seed)
             /\ hasher.built => hasher.seed = <<args.seed[1], args.seed[2]>>

C7_Witness ==
    /\ Exited
    /\ args.kind = "Xxh32"
    /\ args.seed = SeedOver32
    /\ args.file = <<"s", "l">>
    /\ stderr = <<InvalidSeed(SeedOver32)>>
    /\ stdout = <<>>

\* C8: with no file argument, whatever the algorithm and the seed, the
\* invocation prints the notice and returns successfully: no error, no file
\* opened, no accumulator built, nothing hashed.
C8_NoFileNotice ==
    args.file = <<>> =>
        /\ pc \in {"main", "exit"}
        /\ stderr = <<>>
        /\ trace = <<>>
        /\ hasher = NoHasher
        /\ ~reader.open
        /\ hash = NoHash
        /\ Exited => (stdout = <<NoFileNotice>> /\ exitCode = ExitSuccess)

C8_Witness ==
    /\ Exited
    /\ args.file = <<>>
    /\ args.kind = "Xxh32"
    /\ args.seed = SeedOver32
    /\ stdout = <<NoFileNotice>>

\* C9: a next() call entered with R bytes left in the source returns, for
\* every fragmentation of the reads, the next min(N, R) bytes of the source
\* as one chunk (the terminal signal when that is zero bytes); a chunk
\* shorter than N means the source is exhausted.
C9_ChunkAmortization ==
    (pc = "match" /\ result.tag # "Err") =>
        LET content == Content(reader.path)
            n == Min(N, Len(content) - call.pos)
        IN  /\ Len(result.chunk) = n
            /\ result.chunk = SubSeq(content, call.pos + 1, call.pos + n)
            /\ result.tag = (IF n = 0 THEN "None" ELSE "Some")
            /\ reader.pos = call.pos + n
            /\ n < N => reader.pos = Len(content)

C9_Witness ==
    /\ pc = "match"
    /\ reader.path = "l"
    /\ call.pos = N
    /\ result.tag = "Some"
    /\ result.chunk = SubSeq(Content("l"), N + 1, 2 * N)
    /\ Cardinality({k \in 1..Len(call.reads) : call.reads[k].size > 0}) = N

RECURSIVE Delivered(_)
\* The bytes handed out as chunks so far.
Delivered(tr) ==
    IF tr = <<>> THEN <<>>
    ELSE (IF Head(tr).ev = "Some" THEN Head(tr).data ELSE <<>>) \o Delivered(Tail(tr))

\* C10: next() returns the terminal signal only when the source has nothing
\* left and every byte of it has been handed out in earlier chunks; a call
\* entered on an exhausted source returns the terminal signal, so no chunk
\* ever follows a terminal signal.
C10_TerminalSignal ==
    /\ (pc = "match" /\ result.tag = "None") =>
          /\ reader.pos = Len(Content(reader.path))
          /\ (\A k \in 1..Len(trace) : trace[k].ev # "Err")
                => Delivered(trace) = Content(reader.path)
    /\ (pc = "match" /\ result.tag = "Some"
          /\ \A k \in 1..Len(trace) : trace[k].ev # "Err")
          => Delivered(trace) \o result.chunk
               = SubSeq(Content(reader.path), 1, reader.pos)
    /\ (pc = "match" /\ call.pos = Len(Content(reader.path)) /\ result.tag # "Err")
          => result.tag = "None"
    /\ \A i, j \in 1..Len(trace) :
          (i < j /\ trace[i].ev = "None") => trace[j].ev # "Some"

C10_Witness ==
    /\ pc = "match"
    /\ reader.path = "f"
    /\ result.tag = "None"
    /\ Len(trace) = 2
    /\ trace[1].ev = "Some"
    /\ trace[2].ev = "None"

\* What the k-th next() call on the harness's source returns when no read
\* ever fails: the k-th run of N bytes, then the terminal signal.
RefResult(k) ==
    LET content == Content(args.file[1])
        lo == (k - 1) * N
    IN  IF lo >= Len(content)
        THEN Event("None", k, <<>>)
        ELSE Event("Some", k, SubSeq(content, lo + 1, Min(k * N, Len(content))))
NoErrReturned ==
    /\ \A k \in 1..Len(trace) : trace[k].ev # "Err"
    /\ result.tag # "Err"

\* C11: wherever Interrupted failures are placed among the reads, the
\* results of the next() calls (contents, boundaries, terminal signal) are
\* those of the same source without any; and an interrupted read moves
\* neither the source, nor the cursor, nor the bytes accumulated.
C11_InterruptTransparency ==
    /\ [](NoErrReturned =>
            /\ trace = [k \in 1..Len(trace) |-> RefResult(k)]
            /\ pc = "match" =>
                  Event(result.tag, calls, result.chunk) = RefResult(calls))
    /\ [][interrupts' # interrupts =>
            /\ reader' = reader
            /\ total_size' = total_size
            /\ buf' = buf
            /\ pc' = pc]_vars

C11_Witness ==
    /\ pc = "match"
    /\ reader.path = "l"
    /\ call.pos = N
    /\ result.tag = "Some"
    /\ Len(call.reads) > 2
    /\ call.reads[1] = ReadResult("Ok", 1)
    /\ call.reads[2] = ReadResult("Interrupted", 0)
    /\ result.chunk = SubSeq(Content("l"), N + 1, 2 * N)

\* C12: inside next() the cursor starts at 0, the slice read into is always
\* the unfilled remainder (cursor + its length = N, cursor = bytes
\* accumulated <= N); a chunk returned is the buffer from 0 to the cursor
\* and has 1..N bytes, and zero accumulated bytes give the terminal signal.
C12_CursorDiscipline ==
    /\ pc = "read" =>
          /\ buf.start + buf.len = N
          /\ buf.start = total_size
          /\ total_size \in 0..N
          /\ call.reads = <<>> => buf.start = 0
          /\ reader.pos = call.pos + total_size
    /\ (pc = "match" /\ result.tag = "Some") =>
          /\ Len(result.chunk) \in 1..N
          /\ Len(result.chunk) = buf.start
          /\ result.chunk = SubSeq(reader.buffer, 1, buf.start)
    /\ (pc = "match" /\ result.tag # "Err") =>
          (result.tag = "None" <=> total_size = 0)
    /\ (pc = "match" /\ result.tag = "None") => result.chunk = <<>>

C12_Witness ==
    /\ pc = "read"
    /\ reader.path = "l"
    /\ call.pos = N
    /\ total_size = 1
    /\ buf = [start |-> 1, len |-> N - 1]

\* ---- reading the printed strings back
HexValue(c) == CHOOSE n \in 0..15 : HexDigits[n + 1] = c
\* The 32 hex digits of a UUID string, dashes removed, as 16 bytes.
UuidBytes(str) ==
    LET hex == SubSeq(str, 1, 8) \o SubSeq(str, 10, 13) \o SubSeq(str, 15, 18)
                 \o SubSeq(str, 20, 23) \o SubSeq(str, 25, 36)
    IN  [i \in 1..U128Bytes |-> HexValue(hex[2 * i - 1]) * 16 + HexValue(hex[2 * i])]
\* v * 10 + d on a number written as bytes, most significant first.
RECURSIVE CarryUp(_, _, _)
CarryUp(v, d, i) ==
    IF i > Len(v) THEN d ELSE (v[i] * 10 + CarryUp(v, d, i + 1)) \div 256
TimesTenPlus(v, d) == [i \in 1..Len(v) |-> (v[i] * 10 + CarryUp(v, d, i + 1)) % 256]
RECURSIVE ParseDecimal(_)
ParseDecimal(str) ==
    IF str = <<>> THEN [i \in 1..U128Bytes |-> 0]
    ELSE TimesTenPlus(ParseDecimal(SubSeq(str, 1, Len(str) - 1)),
                      HexValue(str[Len(str)]))

\* C13: for every 128-bit digest value, with --uuid the digest part of the
\* line is the canonical 8-4-4-4-12 string of the digest's little-endian
\* bytes with the version nibble forced to 4 and the variant bits to 10 and
\* every other bit kept; without --uuid it is the decimal numeral of the
\* value.
C13_UuidRendering ==
    stdout # <<>> =>
        LET str == stdout[1][3]
            le == [i \in 1..U128Bytes |-> hash[U128Bytes + 1 - i]]
        IN  IF args.uuid
            THEN /\ Len(str) = 36
                 /\ \A i \in {9, 14, 19, 24} : str[i] = "-"
                 /\ \A i \in (1..36) \ {9, 14, 19, 24} :
                        \E n \in 1..16 : HexDigits[n] = str[i]
                 /\ str[15] = "4"
                 /\ str[20] \in {"8", "9", "a", "b"}
                 /\ LET u == UuidBytes(str) IN
                    /\ \A i \in (1..U128Bytes) \ {7, 9} : u[i] = le[i]
                    /\ u[7] \div 16 = 4 /\ u[7] % 16 = le[7] % 16
                    /\ u[9] \div 64 = 2 /\ u[9] % 64 = le[9] % 64
            ELSE /\ Len(str) \in 1..39
                 /\ \A i \in 1..Len(str) : \E n \in 1..10 : HexDigits[n] = str[i]
                 /\ Len(str) > 1 => str[1] # "0"
                 /\ ParseDecimal(str) = hash

C13_Witness ==
    /\ Len(stdout) = 1
    /\ args.uuid
    /\ hash[U128Bytes + 1 - 7] \div 16 = 15
    /\ hash[U128Bytes + 1 - 9] \div 64 = 3
    /\ hash[1] # hash[U128Bytes]
    /\ stdout[1][3][15] = "4"
    /\ stdout[1][3][20] = "b"

\* Whether operation cur may come directly after operation prev.
Follows(prev, cur) ==
    CASE cur.ev \in {"open", "open_err"} ->
            \/ prev.ev = "build" /\ cur.src = 1
            \/ prev.ev = "reset" /\ cur.src = prev.src + 1
      [] cur.ev \in {"update", "read_err", "digest"} ->
            prev.ev \in {"open", "update"} /\ cur.src = prev.src
      [] cur.ev = "emit" -> prev.ev = "digest" /\ cur.src = prev.src
      [] cur.ev = "reset" -> prev.ev = "emit" /\ cur.src = prev.src
      [] OTHER -> FALSE

\* C14: one accumulator is built, once, before anything else; then for each
\* source in turn: open, updates, one digest, one emit, one reset, the next
\* open only after that reset; digest is taken only after next() returned
\* the terminal signal.
C14_StepOrder ==
    /\ trace # <<>> => trace[1] = Event("build", 0, <<>>)
    /\ hasher.built <=> trace # <<>>
    /\ \A k \in 2..Len(trace) : Follows(trace[k - 1], trace[k])
    /\ pc \in {"digest", "emit", "reset"} =>
          /\ result.tag = "None"
          /\ call.reads[Len(call.reads)] = ReadResult("Ok", 0)
    /\ \A i \in 1..Len(args.file) :
          /\ Cardinality(EventsOf("open", i)) <= 1
          /\ Cardinality(EventsOf("digest", i)) <= 1
          /\ Cardinality(EventsOf("emit", i)) <= 1
          /\ Cardinality(EventsOf("reset", i)) <= 1
          /\ (pc = "for" /\ i <= it) =>
                Cardinality(EventsOf("digest", i) \cup EventsOf("emit", i)
                               \cup EventsOf("reset", i)) = 3

C14_Witness ==
    /\ Exited
    /\ args.file = <<"l", "s">>
    /\ stderr = <<>>
    /\ Len(trace) = 13
    /\ trace[8] = Event("reset", 1, <<>>)
    /\ trace[9] = Event("open", 2, <<>>)

\* C15: never more than one source is open, the open one is the current
\* source, none is open when the next one is about to be opened, and none
\* is open once the invocation has ended, however it ended.
C15_OneOpenSource ==
    /\ Cardinality(fds) <= 1
    /\ fds \subseteq {it}
    /\ reader.open <=> fds # {}
    /\ pc \in {"loop", "read", "match", "digest", "emit", "reset"} => fds = {it}
    /\ pc \in {"main", "for", "exit"} => fds = {}

C15_Witness ==
    /\ Exited
    /\ ReadFault
    /\ it = 2
    /\ EventsOf("open", 1) # {}
    /\ EventsOf("open", 2) # {}
    /\ fds = {}

\* What the invocation has printed, told without looking at --uuid: the
\* numeric lines of the sources done, and the one message of the failure
\* that ended it, if any.
NumericLine(i) ==
    <<args.file[i], ":", [fmt |-> "number", of |-> OneShot(Content(args.file[i]))]>>
FailureMessage ==
    IF ~Exited \/ args.file = <<>> THEN <<>>
    ELSE IF args.kind = "Xxh32" /\ AboveU32Max(args.seed)
         THEN <<InvalidSeed(args.seed)>>
    ELSE IF ReadFault THEN <<ErrorReading(args.file[it], "Other")>>
    ELSE IF it > 0 /\ ~Exists(args.file[it])
         THEN <<CannotOpen(args.file[it], "NotFound")>>
    ELSE <<>>

\* C17: with the XXH3-64, the 64-bit or the 32-bit algorithm the output
\* lines and the errors are the same function of the seed, the sources and
\* their failures whether --uuid is given or not.
C17_UuidFlagNoOp ==
    args.kind # "Xxh3" =>
        /\ stderr = FailureMessage
        /\ stdout = IF args.file = <<>>
                    THEN (IF Exited THEN <<NoFileNotice>> ELSE <<>>)
                    ELSE [i \in 1..Len(stdout) |-> NumericLine(i)]
        /\ (Exited /\ args.file # <<>> /\ SeedFits) =>
              Len(stdout) = IF FailureMessage = <<>> THEN Len(args.file) ELSE it - 1
        /\ (Exited /\ args.file # <<>> /\ ~SeedFits) => stdout = <<>>

C17_Witness ==
    /\ Exited
    /\ args.uuid
    /\ args.kind = "Xxh64"
    /\ args.file = <<"s", "l">>
    /\ stdout = <<NumericLine(1), NumericLine(2)>>

NoStormSource == \A i \in 1..Len(args.file) : args.file[i] # StormPath

\* C16: with finite sources of which none interrupts for ever, every next()
\* call returns and the invocation terminates; the loop of next() goes
\* round again only after an accepted read or an interruption; and on a
\* source that interrupts for ever next() never returns.
C16_Termination ==
    /\ NoStormSource => <>Exited
    /\ [](pc = "read" /\ ~Stormy(reader) => <>(pc = "match"))
    /\ [](InStorm => [](InStorm /\ ~Exited))
    /\ [][(pc = "read" /\ pc' = "read" /\ call' # call) =>
            LET last == call'.reads[Len(call'.reads)]
            IN  last.res = "Interrupted" \/ (last.res = "Ok" /\ last.size > 0)]_vars

C16_Witness ==
    /\ InStorm
    /\ interrupts = MaxInterrupts
    /\ it = 2
    /\ args.file = <<"l", StormPath>>
    /\ Len(stdout) = 1

\* The reads of the current next() call that were not interrupted.
Answered == SelectSeq(call.reads, LAMBDA r : r.res # "Interrupted")

\* C18: the reader has no end-of-input latch.  A call returns the terminal
\* signal, and the driver goes on to digest, exactly when the first
\* non-interrupted read of that very call reports zero; a call whose zero
\* read comes after some bytes returns those bytes, and the next call reads
\* on from where the source stands, so that nothing read is lost and the
\* digest covers exactly the bytes read.
C18_NoEndLatch ==
    /\ pc = "match" =>
          /\ Answered # <<>>
          /\ result.tag = "None" <=> Answered[1] = ReadResult("Ok", 0)
          /\ result.tag = "Some" =>
                /\ Answered[1].size > 0
                /\ Answered[Len(Answered)] = ReadResult("Ok", 0)
                /\ result.chunk = SubSeq(Content(File), call.pos + 1, reader.pos)
    /\ pc \in {"digest", "emit", "reset"} => Answered = <<ReadResult("Ok", 0)>>
    /\ (pc = "read" /\ call.reads = <<>>) =>
          /\ call.pos = reader.pos
          /\ hasher.data = SubSeq(Content(File), 1, reader.pos)
    /\ pc = "digest" => hasher.data = SubSeq(Content(File), 1, reader.pos)

C18_Witness ==
    /\ pc = "match"
    /\ File = "l"
    /\ hasher.data = <<1>>
    /\ trace[Len(trace)] = Event("update", 1, <<1>>)
    /\ call.pos = 1
    /\ result.tag = "Some"
    /\ result.chunk = SubSeq(Content("l"), 2, N + 1)

\* C19: every next() call that returns a chunk or the terminal signal ends
\* on a read that reported zero.  A full buffer does not end the loop: the
\* next read is issued over a zero-length destination, the full chunk is
\* returned only when that read reports zero, and when that read fails the
\* N bytes taken from the source are dropped and the error is returned.
C19_LastReadIsZero ==
    /\ (pc = "match" /\ result.tag \in {"Some", "None"}) =>
          /\ call.reads # <<>>
          /\ call.reads[Len(call.reads)] = ReadResult("Ok", 0)
    /\ (pc = "read" /\ total_size = N) => buf.len = 0
    /\ (pc = "match" /\ result.tag = "Some" /\ Len(result.chunk) = N) =>
          /\ buf.len = 0
          /\ Len(call.reads) >= 2
    /\ (pc = "match" /\ result.tag = "Err") =>
          /\ result.chunk = <<>>
          /\ call.reads[Len(call.reads)] = ReadResult("Err", 0)
          /\ reader.pos = call.pos + total_size

C19_Witness ==
    /\ pc = "match"
    /\ result.tag = "Err"
    /\ total_size = N
    /\ reader.pos = call.pos + N
    /\ result.chunk = <<>>
====
